---- MODULE Spec2Model ----
(***************************************************************************)
(* Loop-type multi-agent test system.                                      *)
(*                                                                         *)
(* Five state machines are modelled:                                       *)
(*  - the loop orchestrator (LoopController.start_loop_process in          *)
(*    loop_system.py and IntegratedLoopSystem.run_complete_loop with       *)
(*    _execute_main_loop in run_loop_system.py, the stages and the         *)
(*    availability probe of system_integration.py, up to the exit of the   *)
(*    process), specification Spec;                                        *)
(*  - the test execution application (test_execution_app/app.py): the      *)
(*    TestExecution objects, their manager and the HTTP routes,            *)
(*    specification ExecSpec;                                              *)
(*  - one call of WebSpecExtractor.extract_specifications                  *)
(*    (loop_system.py), specification ExtractSpec;                         *)
(*  - one call of ImprovementAnalyzer.analyze_improvements                 *)
(*    (loop_system.py), specification AnalyzeSpec;                         *)
(*  - the child process of IntegratedLoopSystem.run_complete_loop          *)
(*    (run_loop_system.py): _start_test_applications with its start-up     *)
(*    wait and _cleanup, the loop itself being one step, specification     *)
(*    StartupSpec.                                                         *)
(***************************************************************************)
EXTENDS Integers, Sequences, FiniteSets, TLC

\* ------------------------------------------------------------------------
\* Bounds of the model
\* ------------------------------------------------------------------------
\* largest configured max_loops explored (of an IntegratedLoopSystem)
MaxLoops == 2
\* largest number of improvement suggestions an LLM answer carries
MaxSuggestions == 2
\* datetime.now() readings are drawn from 0..MaxTime (seconds)
MaxTime == 0
\* cap on the number of step results one execution accumulates
MaxResults == 2
\* cap on the number of intervention entries one execution accumulates
MaxInterventions == 1
\* cap on the number of executions in the registry
MaxExecutions == 2

Times == 0..MaxTime
\* largest max_loops of a LoopController (whose stages are deterministic)
MaxControllerLoops == 3
\* how many times start_loop_process is called on one LoopController
MaxRuns == 2

\* Python's None for the optional timestamps
None == -1

\* ------------------------------------------------------------------------
\* State
\* ------------------------------------------------------------------------
VARIABLES
    \* test_execution_app/app.py
    test_cases,        \* module global test_cases (list of uploaded cases)
    executions,        \* execution_manager.executions: id -> TestExecution
    last_call,         \* the request handled last: [op, id]
    \* loop_system.py / run_loop_system.py / system_integration.py
    impl,              \* which orchestrator runs: "LoopController" or "IntegratedLoopSystem"
    max_loops,         \* config.max_loops
    ollama_client,     \* TRUE iff the analyzer was given an LLM client
    pc,                \* position of the run
    current_loop,      \* current_loop / self.current_loop
    loop_results,      \* local list loop_results
    loop_history,      \* LoopController.loop_history
    loop_dir,          \* loop_dir of the iteration in progress
    scopes,            \* directories created so far, in creation order
    csv_files,         \* loop directory -> content of its test_cases.csv
    stage_result,      \* spec_result, test_design_result, test_execution_result of the iteration in progress
    raised,            \* where an exception was raised in the loop ("none" if nowhere)
    outcome,           \* what the run handed back to its caller
    ollama_required,   \* IntegratedLoopSystem.ollama_required
    integration_level, \* what _verify_system_integration computed ("none" before)
    service_status,    \* local service_status of _verify_system_integration
    probes,            \* per started iteration, what each stage read off its probe
    exit_status,       \* status the process exits with (None while it runs)
    run,               \* how many times the loop function was called on the orchestrator
    previous_data,     \* previous_loop_data of the last analyze_improvements call, and its iteration
    saved_reports,     \* how many final reports the run in progress has written
    paused,            \* the iterations before which the run in progress slept
    \* loop_system.py : one call of WebSpecExtractor.extract_specifications
    extraction,        \* what the call meets: the client, the target, the LLM's answers
    spec_result,       \* what the call returned (Null before it returns)
    \* loop_system.py : one call of ImprovementAnalyzer.analyze_improvements
    analyzer_call,     \* what the call meets: test_results, the client, the LLM's answer
    analyzer_result,   \* what the call returned (Null before it returns)
    \* run_loop_system.py : run_complete_loop and the child process
    auto_start_apps,   \* parameter auto_start_apps of run_complete_loop
    startup_pc,        \* position of run_complete_loop
    test_apps_process, \* self.test_apps_process: "none" or the state of the child
    waited,            \* probes made by the start-up wait
    start_up,          \* how _start_test_applications ended ("none" before)
    complete_loop      \* how run_complete_loop ended ("running" before)

exec_vars == <<test_cases, executions, last_call>>
loop_vars == <<impl, max_loops, ollama_client, pc, current_loop, loop_results,
               loop_history, loop_dir, scopes, csv_files, stage_result, raised,
               outcome, ollama_required, integration_level, service_status,
               probes, exit_status, run, previous_data, saved_reports,
               paused>>
extract_vars == <<extraction, spec_result>>
analyze_vars == <<analyzer_call, analyzer_result>>
startup_vars == <<auto_start_apps, startup_pc, test_apps_process, waited,
                  start_up, complete_loop>>
vars == <<exec_vars, loop_vars, extract_vars, analyze_vars, startup_vars>>

\* ------------------------------------------------------------------------
\* test_execution_app/app.py : TestExecution
\* ------------------------------------------------------------------------
StepNames == <<"s1", "s2", "s3", "s4">>
Steps(n) == [i \in 1..n |-> StepNames[i]]

\* the rows an uploaded CSV file can carry (id, name, steps, expected)
TestCase(id, nsteps) ==
    [test_case_id |-> id, test_name |-> id,
     test_steps |-> Steps(nsteps), expected_results |-> <<"ok">>]

Catalogs ==
    { <<TestCase("TC-001", 1), TestCase("TC-002", 2)>>,
      <<TestCase("TC-003", 0)>> }

TestExecution(test_case_id, test_name, test_steps, expected_results) ==
    [test_case_id |-> test_case_id,
     test_name |-> test_name,
     test_steps |-> test_steps,
     expected_results |-> expected_results,
     status |-> "pending",
     current_step |-> 0,
     results |-> <<>>,
     human_interventions |-> <<>>,
     start_time |-> None,
     end_time |-> None,
     execution_style |-> "manual"]

TestExecution_start_execution(e, now) ==
    [e EXCEPT !.start_time = now, !.status = "running", !.current_step = 0]

\* a completion that only a running execution accepts
TestExecution_complete_step_running_only(e, step_result, now) ==
    IF e.status # "running" THEN e
    ELSE LET e1 == [e EXCEPT !.results = Append(@, step_result),
                             !.current_step = @ + 1]
         IN  IF e1.current_step >= Len(e1.test_steps)
             THEN [e1 EXCEPT !.status = "completed", !.end_time = now]
             ELSE e1

TestExecution_complete_step(e, step_result, now) ==
    LET e1 == [e EXCEPT !.results = Append(@, step_result),
                        !.current_step = @ + 1]
    IN  IF e1.current_step >= Len(e1.test_steps)
        THEN [e1 EXCEPT !.status = "completed", !.end_time = now]
        ELSE e1

\* an intervention that also marks the execution (the status
\* "human_intervention" the constructor's comment lists)
TestExecution_add_human_intervention_marking(e, intervention_type, description, result, now) ==
    [e EXCEPT !.status = "human_intervention",
              !.human_interventions =
        Append(@, [type |-> intervention_type, description |-> description,
                   result |-> result, timestamp |-> now])]

TestExecution_add_human_intervention(e, intervention_type, description, result, now) ==
    [e EXCEPT !.human_interventions =
        Append(@, [type |-> intervention_type, description |-> description,
                   result |-> result, timestamp |-> now])]

\* ------------------------------------------------------------------------
\* test_execution_app/app.py : TestExecutionManager
\* ------------------------------------------------------------------------
\* f"exec_{now:%Y%m%d_%H%M%S}_{test_case_id}"
ExecutionId(now, test_case_id) == <<"exec", now, test_case_id>>

Manager_create_execution(execs, test_case, execution_style, now) ==
    LET id == ExecutionId(now, test_case.test_case_id)
        e  == [TestExecution(test_case.test_case_id, test_case.test_name,
                             test_case.test_steps, test_case.expected_results)
                 EXCEPT !.execution_style = execution_style]
    IN  [k \in DOMAIN execs \cup {id} |-> IF k = id THEN e ELSE execs[k]]

\* a manager that starts every registered execution
Manager_start_execution_all(execs, id, now) ==
    [k \in DOMAIN execs |-> TestExecution_start_execution(execs[k], now)]

Manager_start_execution(execs, id, now) ==
    IF id \in DOMAIN execs
    THEN [execs EXCEPT ![id] = TestExecution_start_execution(@, now)]
    ELSE execs

Manager_complete_step(execs, id, step_result, now) ==
    IF id \in DOMAIN execs
    THEN [execs EXCEPT ![id] = TestExecution_complete_step(@, step_result, now)]
    ELSE execs

Manager_add_human_intervention(execs, id, intervention_type, description, result, now) ==
    IF id \in DOMAIN execs
    THEN [execs EXCEPT ![id] =
            TestExecution_add_human_intervention(@, intervention_type,
                                                 description, result, now)]
    ELSE execs

\* ------------------------------------------------------------------------
\* test_execution_app/app.py : routes
\* ------------------------------------------------------------------------
\* identifiers a client can address: the registered ones and one that is not
UnknownId == <<"exec", None, "none">>
AddressableIds == DOMAIN executions \cup {UnknownId}

FindTestCase(cases, test_case_id) ==
    LET hits == {i \in 1..Len(cases) : cases[i].test_case_id = test_case_id}
    IN  IF hits = {} THEN <<>>
        ELSE <<cases[CHOOSE i \in hits : \A j \in hits : i <= j]>>

upload_test_cases ==
    \E rows \in Catalogs :
        /\ test_cases' = rows
        /\ last_call' = [op |-> "upload_test_cases", id |-> UnknownId]
        /\ UNCHANGED executions
        /\ UNCHANGED <<loop_vars, extract_vars, analyze_vars, startup_vars>>

create_execution ==
    \E test_case_id \in {"TC-001", "TC-002", "TC-003"}, now \in Times :
        LET found == FindTestCase(test_cases, test_case_id) IN
        /\ IF found = <<>>
           THEN UNCHANGED executions
           ELSE /\ Cardinality(DOMAIN executions \cup
                               {ExecutionId(now, test_case_id)}) <= MaxExecutions
                /\ executions' = Manager_create_execution(
                                    executions, found[1], "Manual Trigger Driven", now)
        /\ last_call' = [op |-> "create_execution",
                         id |-> ExecutionId(now, test_case_id)]
        /\ UNCHANGED test_cases
        /\ UNCHANGED <<loop_vars, extract_vars, analyze_vars, startup_vars>>

start_execution ==
    \E id \in AddressableIds, now \in Times :
        /\ executions' = Manager_start_execution(executions, id, now)
        /\ last_call' = [op |-> "start_execution", id |-> id]
        /\ UNCHANGED test_cases
        /\ UNCHANGED <<loop_vars, extract_vars, analyze_vars, startup_vars>>

complete_step ==
    \E id \in AddressableIds, status \in {"passed", "failed"}, now \in Times :
        LET step_result == [result |-> "r", status |-> status,
                            timestamp |-> now, notes |-> ""] IN
        /\ id \in DOMAIN executions => Len(executions[id].results) < MaxResults
        /\ executions' = Manager_complete_step(executions, id, step_result, now)
        /\ last_call' = [op |-> "complete_step", id |-> id]
        /\ UNCHANGED test_cases
        /\ UNCHANGED <<loop_vars, extract_vars, analyze_vars, startup_vars>>

add_intervention ==
    \E id \in AddressableIds, type \in {"manual", "judgment"}, now \in Times :
        /\ id \in DOMAIN executions =>
              Len(executions[id].human_interventions) < MaxInterventions
        /\ executions' = Manager_add_human_intervention(
                            executions, id, type, "d", "ok", now)
        /\ last_call' = [op |-> "add_intervention", id |-> id]
        /\ UNCHANGED test_cases
        /\ UNCHANGED <<loop_vars, extract_vars, analyze_vars, startup_vars>>


\* ------------------------------------------------------------------------
\* Helpers for Python dicts, lists and formatting
\* ------------------------------------------------------------------------
\* dict.get(key, default)
Get(r, k, default) == IF k \in DOMAIN r THEN r[k] ELSE default

Null == [null |-> TRUE]

RECURSIVE Digits(_)
Digits(n) == IF n < 10 THEN <<n>> ELSE Append(Digits(n \div 10), n % 10)

\* f"{n:03d}": decimal digits, zero-padded to a width of at least 3
Format03d(n) ==
    LET d == Digits(n)
    IN  IF Len(d) >= 3 THEN d ELSE [i \in 1..(3 - Len(d)) |-> 0] \o d

\* ------------------------------------------------------------------------
\* loop_system.py : LoopController helpers
\* ------------------------------------------------------------------------
\* the loop directory name without the loop number (a name built from the
\* timestamp alone)
LoopDirName_timestamp_only(loop_number, timestamp) ==
    [prefix |-> "loop-", number |-> <<>>, timestamp |-> timestamp]

\* loops_dir / f"loop-{loop_number:03d}_{timestamp}"
LoopDirName(loop_number, timestamp) ==
    [prefix |-> "loop-", number |-> Format03d(loop_number), timestamp |-> timestamp]

NoDir == [prefix |-> "", number |-> <<>>, timestamp |-> None]

\* the loop condition with an off-by-one
LoopCondition_inclusive(loop, max) == loop <= max

\* while current_loop < max_loops
LoopCondition(loop, max) == loop < max

\* an exception handler that goes on with the next iteration
AfterIterationException_continue(stage) == "while"

\* except Exception: ... break
AfterIterationException(stage) == "report"

LoopControllerIds == <<"TC-001", "TC-002", "TC-003", "TC-004", "TC-005">>

\* LoopController._run_test_design
LoopController_run_test_design ==
    [test_cases_generated |-> 5, requirements_analyzed |-> TRUE,
     design_completed |-> TRUE,
     test_cases |-> [i \in 1..5 |->
        [test_case_id |-> LoopControllerIds[i], test_name |-> LoopControllerIds[i],
         test_steps |-> <<"s1", "s2">>, expected_results |-> <<"ok">>]]]

\* LoopController._run_test_execution
LoopController_run_test_execution(test_design_result) ==
    LET tcs == Get(test_design_result, "test_cases", <<>>)
        n   == Len(tcs)
    IN  [execution_results |-> [i \in 1..n |->
            [test_case_id |-> tcs[i].test_case_id,
             test_name |-> tcs[i].test_name,
             status |-> IF i % 4 # 0 THEN "passed" ELSE "failed"]],
         total_tests |-> n,
         passed_tests |-> Cardinality({i \in 1..n : i % 4 # 0}),
         failed_tests |-> Cardinality({i \in 1..n : i % 4 = 0})]

\* ------------------------------------------------------------------------
\* CSV files: a header and rows of cells; a cell is the list of the
\* comma-separated tokens it holds (fields carry no comma or quote)
\* ------------------------------------------------------------------------
Header7 == <<"Test Case ID", "Test Name", "Test Objective", "Test Steps",
             "Expected Results", "Test Data", "Test Environment">>
Header9 == <<"Test Case ID", "Requirement ID", "Test Name", "Test Objective",
             "Preconditions", "Test Steps", "Expected Results", "Test Data",
             "Test Environment">>

\* the empty file
EmptyCsv == [header |-> <<>>, rows |-> <<>>]

\* a path at which there is no file: open() raises
NoFile == [missing |-> TRUE]

Cells(tokens) == [j \in 1..Len(tokens) |-> <<tokens[j]>>]

\* text of a cell holding at most one token
CellText(cell) == IF cell = <<>> THEN "" ELSE cell[1]

ColumnIndex(header, name) ==
    LET hits == {i \in 1..Len(header) : header[i] = name}
    IN  IF hits = {} THEN 0 ELSE CHOOSE i \in hits : \A j \in hits : i <= j

\* csv.DictReader row: a column beyond the end of the row reads as None
RowIsNone(header, row, name) ==
    ColumnIndex(header, name) > Len(row)

\* row.get(name, "")
RowGet(header, row, name) ==
    LET i == ColumnIndex(header, name)
    IN  IF i = 0 \/ i > Len(row) THEN <<>> ELSE row[i]

\* test_execution_app/app.py : upload_test_cases, the rows read from a file
ParseTestCases(csv) ==
    [i \in 1..Len(csv.rows) |->
        [test_case_id |-> CellText(RowGet(csv.header, csv.rows[i], "Test Case ID")),
         test_name |-> CellText(RowGet(csv.header, csv.rows[i], "Test Name")),
         test_steps |-> RowGet(csv.header, csv.rows[i], "Test Steps"),
         expected_results |-> RowGet(csv.header, csv.rows[i], "Expected Results")]]

\* None.split raises: the route answers 500
ParseFails(csv) ==
    \E i \in 1..Len(csv.rows) :
        \/ RowIsNone(csv.header, csv.rows[i], "Test Steps")
        \/ RowIsNone(csv.header, csv.rows[i], "Expected Results")

\* test_design_app/app.py : download_test_cases
DownloadCsv(cases) ==
    [header |-> Header9,
     rows |-> [i \in 1..Len(cases) |->
        << <<cases[i].test_case_id>>, <<>>, <<cases[i].test_name>>, <<>>, <<>>,
           cases[i].test_steps, cases[i].expected_results, <<>>, <<>> >>]]

\* ------------------------------------------------------------------------
\* system_integration.py : EnhancedLoopController, the two adapters
\* ------------------------------------------------------------------------
\* a generator that comes up with nothing
FallbackTestCases_none == <<>>

\* the test_cases list of _fallback_test_design
FallbackTestCases ==
    << [test_case_id |-> "TC-001", test_name |-> "basic function test",
        test_steps |-> <<"access site", "run basic function">>,
        expected_results |-> <<"works">>],
       [test_case_id |-> "TC-002", test_name |-> "ui operation test",
        test_steps |-> <<"check display", "operate ui">>,
        expected_results |-> <<"responds">>] >>

\* the file _fallback_test_design writes
FallbackCsv ==
    [header |-> Header7,
     rows |-> [i \in 1..Len(FallbackTestCases) |->
        << <<FallbackTestCases[i].test_case_id>>,
           <<FallbackTestCases[i].test_name>>, <<"basic test">> >>
        \o Cells(FallbackTestCases[i].test_steps)
        \o Cells(FallbackTestCases[i].expected_results)
        \o << <<"standard">>, <<"test environment">> >>]]

\* EnhancedLoopController._fallback_test_design
fallback_test_design ==
    [success |-> TRUE, test_cases |-> FallbackTestCases, fallback_used |-> TRUE]

\* the test-case lists the design collaborator answers with
DesignedCaseLists ==
    { <<>>,
      << [test_case_id |-> "TC-101", test_name |-> "designed",
          test_steps |-> <<"s1", "s2">>, expected_results |-> <<"ok">>] >> }

\* TestDesignIntegration.create_test_design_from_spec
create_test_design_from_spec(call_ok, cases) ==
    IF call_ok
    THEN [success |-> TRUE,
          test_design_result |-> [test_cases |-> cases],
          csv_saved |-> TRUE,
          test_cases_count |-> Len(cases)]
    ELSE [success |-> FALSE, error |-> "error", fallback_used |-> TRUE]

\* the TestExecution object of the collaborator after start (if the start
\* request arrived) and `posted` complete_step requests
RECURSIVE Driven(_, _, _)
Driven(tc, started, posted) ==
    IF posted = 0
    THEN LET e == TestExecution(tc.test_case_id, tc.test_name,
                                tc.test_steps, tc.expected_results)
         IN  IF started THEN TestExecution_start_execution(e, 0) ELSE e
    ELSE TestExecution_complete_step(
            Driven(tc, started, posted - 1),
            [result |-> "r", status |-> "passed", timestamp |-> 0, notes |-> ""], 0)

Min(a, b) == IF a <= b THEN a ELSE b

\* TestExecutionIntegration._execute_single_test_case; net says which
\* requests to the collaborator succeeded
execute_single_test_case(test_case, net) ==
    IF ~net.create_ok
    THEN [test_case_id |-> test_case.test_case_id,
          test_name |-> test_case.test_name,
          status |-> "failed", failure_reason |-> "create failed"]
    ELSE [test_case_id |-> test_case.test_case_id,
          test_name |-> test_case.test_name,
          status |-> IF net.get_ok
                     THEN Driven(test_case, net.start_ok,
                                 Min(net.posted, Len(test_case.test_steps))).status
                     ELSE "unknown"]

MaxCsvSteps == 2
NetOutcomes ==
    [create_ok : BOOLEAN, start_ok : BOOLEAN, posted : 0..MaxCsvSteps, get_ok : BOOLEAN]

CountStatus(results, status) ==
    Cardinality({i \in 1..Len(results) : results[i].status = status})

\* an adapter that counts as failed the results with status "failed" only
execute_test_cases_failed_status_only(csv, upload_ok, nets) ==
    IF csv = NoFile \/ ~upload_ok \/ ParseFails(csv)
    THEN [success |-> FALSE, error |-> "error", execution_results |-> <<>>,
          total_tests |-> 0, passed_tests |-> 0, failed_tests |-> 0]
    ELSE LET tcs == ParseTestCases(csv)
             execution_results ==
                [i \in 1..Len(tcs) |-> execute_single_test_case(tcs[i], nets[i])]
         IN  [success |-> TRUE,
              execution_results |-> execution_results,
              total_tests |-> Len(tcs),
              passed_tests |-> CountStatus(execution_results, "passed"),
              failed_tests |-> CountStatus(execution_results, "failed"),
              test_cases |-> tcs]

\* TestExecutionIntegration.execute_test_cases
execute_test_cases(csv, upload_ok, nets) ==
    IF csv = NoFile \/ ~upload_ok \/ ParseFails(csv)
    THEN [success |-> FALSE, error |-> "error", execution_results |-> <<>>,
          total_tests |-> 0, passed_tests |-> 0, failed_tests |-> 0]
    ELSE LET tcs == ParseTestCases(csv)
             execution_results ==
                [i \in 1..Len(tcs) |-> execute_single_test_case(tcs[i], nets[i])]
             passed == CountStatus(execution_results, "passed")
         IN  [success |-> TRUE,
              execution_results |-> execution_results,
              total_tests |-> Len(tcs),
              passed_tests |-> passed,
              failed_tests |-> Len(tcs) - passed,
              test_cases |-> tcs]

\* EnhancedLoopController._fallback_test_execution; random[i] is the
\* outcome of the i-th random draw
fallback_test_execution(test_design_result, random) ==
    LET tcs == Get(test_design_result, "test_cases", <<>>)
        execution_results ==
            [i \in 1..Len(tcs) |->
                [test_case_id |-> tcs[i].test_case_id,
                 test_name |-> tcs[i].test_name,
                 status |-> random[i]]]
    IN  [success |-> TRUE,
         execution_results |-> execution_results,
         total_tests |-> Len(tcs),
         passed_tests |-> CountStatus(execution_results, "passed"),
         failed_tests |-> CountStatus(execution_results, "failed"),
         fallback_used |-> TRUE]

\* ------------------------------------------------------------------------
\* loop_system.py : WebSpecExtractor
\* ------------------------------------------------------------------------
\* largest number of main_features in an answer of the LLM
MaxFeatures == 2

Feature == [name |-> "feature", priority |-> "high"]

\* the headings the specification document is asked to have
SixSections == <<"1", "2", "3", "4", "5", "6">>

\* WebSpecExtractor._fetch_html_content: the page, or a comment that holds
\* the error
fetch_html_content(target) ==
    IF target = "reachable" THEN "page" ELSE "error_comment"

\* WebSpecExtractor._create_fallback_features
create_fallback_features ==
    [main_features |-> <<Feature>>, user_scenarios |-> <<"scenario">>]

\* WebSpecExtractor._create_fallback_spec_document
create_fallback_spec_document == SixSections

\* WebSpecExtractor._create_fallback_spec
create_fallback_spec(target_url) ==
    [target_url |-> target_url,
     html_content |-> "unavailable",
     ui_components |-> <<>>,
     estimated_features |-> create_fallback_features,
     specification_document |-> create_fallback_spec_document]

\* what the LLM answers when asked for the features: a JSON object with n
\* main_features, a JSON object without that key, a JSON value that is no
\* object, text that is not JSON, neither a string nor a dict, or the call
\* raises
FeatureAnswers ==
    [kind : {"object"}, n : 0..MaxFeatures]
        \cup {[kind |-> k, n |-> 0] :
                k \in {"no_key", "no_object", "not_json", "other", "raises"}}

\* WebSpecExtractor._estimate_features
estimate_features(has_client, answer) ==
    IF ~has_client THEN create_fallback_features
    ELSE IF answer.kind = "object"
    THEN [main_features |-> [i \in 1..answer.n |-> Feature],
          user_scenarios |-> <<>>]
    ELSE IF answer.kind = "no_key" THEN [features |-> <<Feature>>]
    ELSE IF answer.kind = "no_object" THEN [json_value |-> "list"]
    ELSE create_fallback_features

\* what the LLM answers when asked for the document: a text with the first
\* n of the six sections, or the call raises
DocumentAnswers ==
    [kind : {"text"}, n : 0..Len(SixSections)] \cup {[kind |-> "raises", n |-> 0]}

\* WebSpecExtractor._generate_specification_document
generate_specification_document(has_client, answer) ==
    IF ~has_client THEN create_fallback_spec_document
    ELSE IF answer.kind = "text" THEN SubSeq(SixSections, 1, answer.n)
    ELSE create_fallback_spec_document

\* what one call of extract_specifications meets
Extractions ==
    [has_client : BOOLEAN,
     target : {"reachable", "unreachable"},
     parser_raises : BOOLEAN,
     features : FeatureAnswers,
     document : DocumentAnswers]

\* WebSpecExtractor.extract_specifications
extract_specifications(target_url, e) ==
    IF e.parser_raises THEN create_fallback_spec(target_url)
    ELSE [target_url |-> target_url,
          html_content |-> fetch_html_content(e.target),
          ui_components |-> <<>>,
          estimated_features |-> estimate_features(e.has_client, e.features),
          specification_document |->
              generate_specification_document(e.has_client, e.document)]

\* ------------------------------------------------------------------------
\* loop_system.py : ImprovementAnalyzer
\* ------------------------------------------------------------------------
IsFailure(execution) == execution.status \in {"failed", "error"}

ImprovementAnalyzer_extract_failed_tests(test_results) ==
    LET failed == SelectSeq(Get(test_results, "execution_results", <<>>), IsFailure)
    IN  [i \in 1..Len(failed) |->
            [test_case_id |-> failed[i].test_case_id,
             test_name |-> failed[i].test_name]]

Suggestion == [category |-> "functional", priority |-> "high"]

\* ImprovementAnalyzer._create_fallback_improvements
create_fallback_improvements(failed_tests) == <<Suggestion>>

\* ImprovementAnalyzer._collect_evidence (the execution results of the
\* model carry no screenshots, logs or traces)
collect_evidence(test_results, failed_tests) ==
    [screenshots |-> <<>>, logs |-> <<>>, error_traces |-> <<>>]

IsHighPriority(imp) == imp.priority = "high"

\* ImprovementAnalyzer._create_next_loop_plan
create_next_loop_plan(improvements) ==
    [focus_areas |-> [i \in 1..Len(improvements) |-> improvements[i].category],
     priority_improvements |-> SelectSeq(improvements, IsHighPriority)]

\* a fallback analysis that carries the two lists only
create_fallback_improvement_lists_only ==
    [failed_tests |-> <<>>, improvement_suggestions |-> <<>>]

\* ImprovementAnalyzer._create_fallback_improvement
create_fallback_improvement ==
    [failed_tests |-> <<>>,
     evidence |-> [screenshots |-> <<>>, logs |-> <<>>, error_traces |-> <<>>],
     improvement_suggestions |-> <<>>,
     next_loop_plan |-> [focus_areas |-> <<>>, priority_improvements |-> <<>>]]

\* what the LLM answers: a list of n well-formed suggestions, text that is
\* not JSON, suggestions without a category, or the call raises
LLMAnswers ==
    [kind : {"list"}, n : 0..MaxSuggestions]
        \cup {[kind |-> "not_json", n |-> 0], [kind |-> "malformed", n |-> 1],
              [kind |-> "raises", n |-> 0]}

\* ImprovementAnalyzer._generate_improvements, when its result is a list
\* that _create_next_loop_plan can read
generate_improvements(failed_tests, has_client, answer) ==
    IF ~has_client \/ answer.kind \in {"not_json", "raises"}
    THEN create_fallback_improvements(failed_tests)
    ELSE [i \in 1..answer.n |-> Suggestion]

\* ImprovementAnalyzer.analyze_improvements
analyze_improvements(test_results, has_client, answer) ==
    LET failed_tests == ImprovementAnalyzer_extract_failed_tests(test_results)
        evidence == collect_evidence(test_results, failed_tests)
        improvements == generate_improvements(failed_tests, has_client, answer)
    IN  IF has_client /\ answer.kind = "malformed"
        THEN create_fallback_improvement
        ELSE [failed_tests |-> failed_tests,
              evidence |-> evidence,
              improvement_suggestions |-> improvements,
              next_loop_plan |-> create_next_loop_plan(improvements)]

\* the loop stops when this holds of the analysis
TerminalCondition_strict(improvement_result) ==
    /\ Len(Get(improvement_result, "failed_tests", <<>>)) = 0
    /\ Len(Get(improvement_result, "improvement_suggestions", <<>>)) < 1

TerminalCondition(improvement_result) ==
    /\ Len(Get(improvement_result, "failed_tests", <<>>)) = 0
    /\ Len(Get(improvement_result, "improvement_suggestions", <<>>)) <= 1

\* a policy that gives up one iteration before the maximum
should_continue_loop_early(improvement_result, loop, max) ==
    IF TerminalCondition(improvement_result) THEN FALSE
    ELSE IF loop + 1 >= max THEN FALSE
    ELSE TRUE

\* LoopController._should_continue_loop
should_continue_loop(improvement_result, loop, max) ==
    IF TerminalCondition(improvement_result) THEN FALSE
    ELSE IF loop >= max THEN FALSE
    ELSE TRUE


\* ------------------------------------------------------------------------
\* Final report
\* ------------------------------------------------------------------------
RECURSIVE SumSeq(_)
SumSeq(q) == IF q = <<>> THEN 0 ELSE q[1] + SumSeq(Tail(q))

\* a total that counts the passed tests only
total_tests_passed_only(results) ==
    SumSeq([i \in 1..Len(results) |->
                Get(results[i].test_execution, "passed_tests", 0)])

total_tests(results) ==
    SumSeq([i \in 1..Len(results) |->
                Get(results[i].test_execution, "total_tests", 0)])

\* _analyze_improvement_trend: failure_counts
failure_counts(results) ==
    [i \in 1..Len(results) |->
        Len(Get(results[i].improvement_analysis, "failed_tests", <<>>))]

total_failures(results) == SumSeq(failure_counts(results))

\* improvement reported when the last count does not exceed the first
improvement_detected_or_equal(counts) ==
    IF Len(counts) > 1 THEN counts[Len(counts)] <= counts[1] ELSE FALSE

\* _analyze_improvement_trend: "improvement_detected"
improvement_detected(counts) ==
    IF Len(counts) > 1 THEN counts[Len(counts)] < counts[1] ELSE FALSE

\* stability read off the first iteration
stability_achieved_first(counts) ==
    IF counts # <<>> THEN counts[1] = 0 ELSE FALSE

\* _analyze_improvement_trend: "stability_achieved"
stability_achieved(counts) ==
    IF counts # <<>> THEN counts[Len(counts)] = 0 ELSE FALSE

\* LoopController._analyze_improvement_trend
analyze_improvement_trend(results) ==
    LET counts == failure_counts(results)
    IN  [failure_trend |-> counts,
         improvement_detected |-> improvement_detected(counts),
         stability_achieved |-> stability_achieved(counts)]

\* LoopController._generate_final_report
generate_final_report(results) ==
    [total_loops_executed |-> Len(results),
     total_tests_run |-> total_tests(results),
     total_failures_identified |-> total_failures(results),
     improvement_trend |-> analyze_improvement_trend(results)]

\* "success_rate" of the execution summary, as a whole percentage
success_rate(tests, failures) ==
    IF tests > 0 THEN ((tests - failures) * 100) \div tests ELSE 0

\* IntegratedLoopSystem._generate_final_report
IntegratedLoopSystem_generate_final_report(results) ==
    [execution_summary |->
        [total_loops_executed |-> Len(results),
         total_tests_run |-> total_tests(results),
         total_failures_identified |-> total_failures(results),
         success_rate |-> success_rate(total_tests(results),
                                       total_failures(results))],
     improvement_summary |->
        [total_improvements_suggested |->
            SumSeq([i \in 1..Len(results) |->
                Len(Get(results[i].improvement_analysis,
                        "improvement_suggestions", <<>>))]),
         final_loop_failures |->
            IF results # <<>>
            THEN Len(Get(results[Len(results)].improvement_analysis,
                         "failed_tests", <<>>))
            ELSE 0]]

\* ------------------------------------------------------------------------
\* system_integration.py : WebAppChecker
\* ------------------------------------------------------------------------
\* what requests.get(url, timeout) does: it returns a response with a
\* status code, or raises (no connection, no answer in time)
EndpointOutcomes ==
    {[kind |-> "response", status_code |-> 200],
     [kind |-> "response", status_code |-> 500],
     [kind |-> "connection_error", status_code |-> None],
     [kind |-> "timeout", status_code |-> None]}

\* a probe that takes every answer of the endpoint for a sign of life
check_app_availability_any_response(endpoint) ==
    IF endpoint.kind = "response"
    THEN [available |-> TRUE, status_code |-> endpoint.status_code]
    ELSE [available |-> FALSE, error |-> endpoint.kind, status_code |-> None]

\* WebAppChecker.check_app_availability (response time and content length
\* left out)
check_app_availability(endpoint) ==
    IF endpoint.kind = "response"
    THEN [available |-> endpoint.status_code = 200,
          status_code |-> endpoint.status_code]
    ELSE [available |-> FALSE, error |-> endpoint.kind, status_code |-> None]

Services == {"test_design_app", "test_execution_app"}

\* WebAppChecker.check_all_services; endpoints[s] is what service s does
check_all_services(endpoints) ==
    [s \in Services |-> check_app_availability(endpoints[s])]

\* no probe result at hand
NoStatus == <<>>

\* ------------------------------------------------------------------------
\* run_loop_system.py : IntegratedLoopSystem, main
\* ------------------------------------------------------------------------
\* _verify_system_integration with the checks in the other order
verify_system_integration_collaborators_last(status, ollama) ==
    LET level0 == "full"
        level1 == IF ~ollama THEN "basic" ELSE level0
        level2 == IF ~status["test_design_app"].available THEN "partial" ELSE level1
        level3 == IF ~status["test_execution_app"].available THEN "partial" ELSE level2
    IN  level3

\* IntegratedLoopSystem._verify_system_integration
verify_system_integration(status, ollama) ==
    LET level0 == "full"
        level1 == IF ~status["test_design_app"].available THEN "partial" ELSE level0
        level2 == IF ~status["test_execution_app"].available THEN "partial" ELSE level1
        level3 == IF ~ollama THEN "basic" ELSE level2
    IN  level3

\* main of run_loop_system.py: the exit status for a result of
\* run_complete_loop; main of loop_system.py: 0 when start_loop_process
\* returns, 1 when its exception ends the interpreter
main(result) ==
    IF result.kind = "cancelled" THEN 1
    ELSE IF result.kind = "error" THEN 1
    ELSE IF result.kind = "raised" THEN 1
    ELSE 0

\* ------------------------------------------------------------------------
\* The run: start_loop_process / run_complete_loop + _execute_main_loop
\* ------------------------------------------------------------------------
Impls == {"LoopController", "IntegratedLoopSystem"}

NoStage == [spec |-> Null, design |-> Null, execution |-> Null]

\* an exception leaves the loop function: start_loop_process raises to its
\* caller, run_complete_loop catches it and returns {"error": ...}
Propagated(at) ==
    IF impl = "LoopController"
    THEN [kind |-> "raised", at |-> at]
    ELSE [kind |-> "error", at |-> at]

\* an exception inside the try block of the iteration
IterationException(stage) ==
    /\ raised' = stage
    /\ pc' = AfterIterationException(stage)
    /\ UNCHANGED <<impl, max_loops, ollama_client, current_loop, loop_results,
                   loop_history, loop_dir, scopes, csv_files, stage_result,
                   outcome, probes>>

WriteCsv(csv) ==
    csv_files' = [d \in DOMAIN csv_files \cup {loop_dir} |->
                    IF d = loop_dir THEN csv ELSE csv_files[d]]

\* the run hands result to main, which exits with main(result)
Return(result) ==
    /\ outcome' = result
    /\ exit_status' = main(result)
    /\ pc' = "done"

Unprobed == [design |-> "unprobed", execution |-> "unprobed"]

\* what a stage read off service_status[service]["available"]
Reading(status, service) ==
    IF status[service].available THEN "available" ELSE "unavailable"

\* run_complete_loop up to the loop: _check_prerequisites,
\* _start_test_applications (it changes no state of the run),
\* _verify_system_integration and the construction of the controller
Start ==
    /\ pc = "start"
    /\ \E packages_ok \in BOOLEAN, ollama_ok \in BOOLEAN, mkdir_ok \in BOOLEAN,
          endpoints \in [Services -> EndpointOutcomes] :
         IF ~packages_ok
         THEN /\ outcome' = [kind |-> "system_exit"]
              /\ exit_status' = 1
              /\ pc' = "done"
              /\ UNCHANGED <<ollama_required, integration_level, service_status>>
         ELSE IF ~mkdir_ok
         THEN /\ ollama_required' = ollama_ok
              /\ Return(Propagated("prerequisites"))
              /\ UNCHANGED <<integration_level, service_status>>
         ELSE /\ ollama_required' = ollama_ok
              /\ service_status' = check_all_services(endpoints)
              /\ integration_level' =
                    verify_system_integration(service_status', ollama_required')
              /\ pc' = "while"
              /\ UNCHANGED <<outcome, exit_status>>
    /\ UNCHANGED <<impl, max_loops, ollama_client, current_loop, loop_results,
                   loop_history, loop_dir, scopes, csv_files, stage_result,
                   raised, probes>>
    /\ UNCHANGED <<run, previous_data, saved_reports, paused>>
    /\ UNCHANGED <<exec_vars, extract_vars, analyze_vars, startup_vars>>

\* loop head: the while test, the increment and the directory creation
\* (_verify_system_integration has returned, its service_status is gone)
LoopHead ==
    /\ pc = "while"
    /\ IF LoopCondition(current_loop, max_loops)
       THEN /\ current_loop' = current_loop + 1
            /\ \E timestamp \in Times, mkdir_ok \in BOOLEAN :
                 IF mkdir_ok
                 THEN /\ loop_dir' = LoopDirName(current_loop', timestamp)
                      /\ scopes' = Append(scopes, loop_dir')
                      /\ probes' = Append(probes, Unprobed)
                      /\ pc' = "spec"
                      /\ UNCHANGED <<raised, outcome, exit_status>>
                 ELSE /\ raised' = "mkdir"
                      /\ Return(Propagated("mkdir"))
                      /\ UNCHANGED <<loop_dir, scopes, probes>>
       ELSE /\ pc' = "report"
            /\ UNCHANGED <<current_loop, loop_dir, scopes, raised, outcome,
                           probes, exit_status>>
    /\ service_status' = NoStatus
    /\ UNCHANGED <<impl, max_loops, ollama_client, loop_results, loop_history,
                   csv_files, stage_result, ollama_required, integration_level>>
    /\ UNCHANGED <<run, previous_data, saved_reports, paused>>
    /\ UNCHANGED <<exec_vars, extract_vars, analyze_vars, startup_vars>>

\* STEP 1: extract_specifications (never raises) and saving its result
SpecStage ==
    /\ pc = "spec"
    /\ \E save_ok \in BOOLEAN :
         IF save_ok
         THEN /\ stage_result' = [stage_result EXCEPT !.spec = [target_url |-> "url"]]
              /\ pc' = "design"
              /\ UNCHANGED <<impl, max_loops, ollama_client, current_loop,
                             loop_results, loop_history, loop_dir, scopes,
                             csv_files, raised, outcome, probes>>
         ELSE IterationException("spec")
    /\ UNCHANGED <<ollama_required, integration_level, service_status, exit_status>>
    /\ UNCHANGED <<run, previous_data, saved_reports, paused>>
    /\ UNCHANGED <<exec_vars, extract_vars, analyze_vars, startup_vars>>

\* STEP 2: _run_test_design / run_integrated_test_design and saving
DesignStage ==
    /\ pc = "design"
    /\ \/ /\ impl = "LoopController"
          /\ stage_result' = [stage_result EXCEPT !.design = LoopController_run_test_design]
          /\ pc' = "execution"
          /\ UNCHANGED <<csv_files, raised, probes>>
       \/ /\ impl = "IntegratedLoopSystem"
          /\ \E endpoints \in [Services -> EndpointOutcomes], call_ok \in BOOLEAN,
                download_ok \in BOOLEAN, cases \in DesignedCaseLists :
               LET status == check_all_services(endpoints) IN
               /\ probes' = [probes EXCEPT ![Len(probes)].design =
                                Reading(status, "test_design_app")]
               /\ IF status["test_design_app"].available
                  THEN /\ stage_result' = [stage_result EXCEPT !.design =
                                create_test_design_from_spec(call_ok, cases)]
                       /\ IF call_ok
                          THEN WriteCsv(IF download_ok THEN DownloadCsv(cases)
                                        ELSE EmptyCsv)
                          ELSE UNCHANGED csv_files
                  ELSE /\ stage_result' = [stage_result EXCEPT !.design =
                                fallback_test_design]
                       /\ WriteCsv(FallbackCsv)
               /\ pc' = "execution"
               /\ UNCHANGED raised
       \/ /\ impl = "IntegratedLoopSystem"
          /\ raised' = "design"
          /\ pc' = AfterIterationException("design")
          /\ UNCHANGED <<csv_files, stage_result, probes>>
    /\ UNCHANGED <<impl, max_loops, ollama_client, current_loop, loop_results,
                   loop_history, loop_dir, scopes, outcome, ollama_required,
                   integration_level, service_status, exit_status>>
    /\ UNCHANGED <<run, previous_data, saved_reports, paused>>
    /\ UNCHANGED <<exec_vars, extract_vars, analyze_vars, startup_vars>>

\* run_integrated_test_execution delegating whenever the probe succeeds
delegates_execution_probe_only(available, csv_exists) == available

\* run_integrated_test_execution: the condition of the delegation
delegates_execution(available, csv_exists) == available /\ csv_exists

\* the file at loop_dir / "test_cases.csv" (NoFile if there is none)
CsvFileOf(dir) == IF dir \in DOMAIN csv_files THEN csv_files[dir] ELSE NoFile
RowsOf(file) == IF file = NoFile THEN <<>> ELSE file.rows

\* STEP 3: _run_test_execution / run_integrated_test_execution and saving
ExecutionStage ==
    /\ pc = "execution"
    /\ \/ /\ impl = "LoopController"
          /\ stage_result' = [stage_result EXCEPT !.execution =
                LoopController_run_test_execution(stage_result.design)]
          /\ pc' = "analysis"
          /\ UNCHANGED <<raised, probes>>
       \/ /\ impl = "IntegratedLoopSystem"
          /\ \E endpoints \in [Services -> EndpointOutcomes] :
               LET status == check_all_services(endpoints) IN
               /\ probes' = [probes EXCEPT ![Len(probes)].execution =
                                Reading(status, "test_execution_app")]
               /\ IF delegates_execution(
                        status["test_execution_app"].available,
                        loop_dir \in DOMAIN csv_files)
                  THEN \E upload_ok \in BOOLEAN,
                          nets \in [1..Len(RowsOf(CsvFileOf(loop_dir))) -> NetOutcomes] :
                         stage_result' = [stage_result EXCEPT !.execution =
                           execute_test_cases(CsvFileOf(loop_dir), upload_ok, nets)]
                  ELSE LET n == Len(Get(stage_result.design, "test_cases", <<>>)) IN
                       \E random \in [1..n -> {"passed", "failed"}] :
                         stage_result' = [stage_result EXCEPT !.execution =
                           fallback_test_execution(stage_result.design, random)]
          /\ pc' = "analysis"
          /\ UNCHANGED raised
       \/ /\ impl = "IntegratedLoopSystem"
          /\ raised' = "execution"
          /\ pc' = AfterIterationException("execution")
          /\ UNCHANGED <<stage_result, probes>>
    /\ UNCHANGED <<impl, max_loops, ollama_client, current_loop, loop_results,
                   loop_history, loop_dir, scopes, csv_files, outcome,
                   ollama_required, integration_level, service_status,
                   exit_status>>
    /\ UNCHANGED <<run, previous_data, saved_reports, paused>>
    /\ UNCHANGED <<exec_vars, extract_vars, analyze_vars, startup_vars>>

\* an append that puts the new record first
append_in_front(history, loop_result) == <<loop_result>> \o history

\* loop_results.append(loop_result), self.loop_history.append(loop_result)
append(history, loop_result) == Append(history, loop_result)

\* a loop that sleeps after every iteration it does not break out of
sleeps_before_next_always(improvement_result, loop, max) ==
    ~TerminalCondition(improvement_result)

\* _execute_main_loop: asyncio.sleep(2) is reached when the iteration did
\* not break and current_loop < max_loops
sleeps_before_next(improvement_result, loop, max) ==
    ~TerminalCondition(improvement_result) /\ loop < max

\* no previous_loop_data
NoCall == [loop |-> 0, data |-> Null]

\* previous_data of the iteration in progress: the last record of
\* self.loop_history (LoopController) or of loop_results
\* (IntegratedLoopSystem), None when that list is empty
PreviousData ==
    LET history == IF impl = "LoopController" THEN loop_history ELSE loop_results
    IN  IF history = <<>> THEN Null ELSE history[Len(history)]

\* STEP 4: analyze_improvements (never raises), saving, the append of the
\* iteration record and the continuation decision
AnalysisStage ==
    /\ pc = "analysis"
    /\ \/ \E answer \in LLMAnswers :
            LET improvement_result ==
                    analyze_improvements(stage_result.execution, ollama_client, answer)
                loop_result ==
                    [loop_number |-> current_loop,
                     loop_directory |-> loop_dir,
                     spec_extraction |-> stage_result.spec,
                     test_design |-> stage_result.design,
                     test_execution |-> stage_result.execution,
                     improvement_analysis |-> improvement_result]
            IN  /\ loop_results' = append(loop_results, loop_result)
                /\ loop_history' = IF impl = "LoopController"
                                   THEN append(loop_history, loop_result)
                                   ELSE loop_history
                /\ pc' = IF impl = "LoopController"
                         THEN IF should_continue_loop(improvement_result,
                                                      current_loop, max_loops)
                              THEN "while" ELSE "report"
                         ELSE IF TerminalCondition(improvement_result)
                              THEN "report" ELSE "while"
                /\ paused' =
                      IF \/ /\ impl = "LoopController"
                            /\ should_continue_loop(improvement_result,
                                                    current_loop, max_loops)
                         \/ /\ impl = "IntegratedLoopSystem"
                            /\ sleeps_before_next(improvement_result,
                                                  current_loop, max_loops)
                      THEN paused \cup {current_loop + 1}
                      ELSE paused
                /\ stage_result' = NoStage
                /\ UNCHANGED raised
       \/ /\ raised' = "analysis"
          /\ pc' = AfterIterationException("analysis")
          /\ UNCHANGED <<loop_results, loop_history, stage_result, paused>>
    /\ UNCHANGED <<impl, max_loops, ollama_client, current_loop, loop_dir,
                   scopes, csv_files, outcome, ollama_required,
                   integration_level, service_status, probes, exit_status>>
    /\ previous_data' = [loop |-> current_loop, data |-> PreviousData]
    /\ UNCHANGED <<run, saved_reports>>
    /\ UNCHANGED <<exec_vars, extract_vars, analyze_vars, startup_vars>>

\* after the loop: _generate_final_report, _save_final_report, return
Report ==
    /\ pc = "report"
    /\ \E save_ok \in BOOLEAN :
         /\ Return(IF save_ok
                   THEN [kind |-> "returned",
                         total_loops |-> Len(loop_results),
                         loop_results |-> loop_results,
                         final_report |->
                            IF impl = "LoopController"
                            THEN generate_final_report(loop_results)
                            ELSE IntegratedLoopSystem_generate_final_report(
                                    loop_results)]
                   ELSE Propagated("save_final_report"))
         /\ saved_reports' = IF save_ok THEN saved_reports + 1 ELSE saved_reports
    /\ UNCHANGED <<impl, max_loops, ollama_client, current_loop, loop_results,
                   loop_history, loop_dir, scopes, csv_files, stage_result, raised,
                   ollama_required, integration_level, service_status, probes>>
    /\ UNCHANGED <<run, previous_data, paused>>
    /\ UNCHANGED <<exec_vars, extract_vars, analyze_vars, startup_vars>>

\* where run_complete_loop can be when the user interrupts it
Interruptible == {"start", "while", "spec", "design", "execution", "analysis",
                  "report"}

\* run_complete_loop: except KeyboardInterrupt
Cancel ==
    /\ impl = "IntegratedLoopSystem"
    /\ pc \in Interruptible
    /\ Return([kind |-> "cancelled"])
    /\ UNCHANGED <<impl, max_loops, ollama_client, current_loop, loop_results,
                   loop_history, loop_dir, scopes, csv_files, stage_result, raised,
                   ollama_required, integration_level, service_status, probes>>
    /\ UNCHANGED <<run, previous_data, saved_reports, paused>>
    /\ UNCHANGED <<exec_vars, extract_vars, analyze_vars, startup_vars>>

\* start_loop_process called again on a LoopController whose run has ended:
\* current_loop and loop_results start afresh, loop_history is the one
\* __init__ made
Restart ==
    /\ impl = "LoopController"
    /\ pc = "done"
    /\ run < MaxRuns
    /\ run' = run + 1
    /\ pc' = "while"
    /\ current_loop' = 0
    /\ loop_results' = <<>>
    /\ loop_dir' = NoDir
    /\ scopes' = <<>>
    /\ probes' = <<>>
    /\ raised' = "none"
    /\ outcome' = [kind |-> "running"]
    /\ exit_status' = None
    /\ previous_data' = NoCall
    /\ saved_reports' = 0
    /\ paused' = {}
    /\ UNCHANGED <<impl, max_loops, ollama_client, loop_history, csv_files,
                   stage_result, ollama_required, integration_level,
                   service_status>>
    /\ UNCHANGED <<exec_vars, extract_vars, analyze_vars, startup_vars>>

LoopInit ==
    /\ impl \in Impls
    /\ max_loops \in 1..(IF impl = "LoopController" THEN MaxControllerLoops
                                                     ELSE MaxLoops)
    /\ ollama_client \in BOOLEAN
    /\ pc = IF impl = "IntegratedLoopSystem" THEN "start" ELSE "while"
    /\ current_loop = 0
    /\ loop_results = <<>>
    /\ loop_history = <<>>
    /\ loop_dir = NoDir
    /\ scopes = <<>>
    /\ csv_files = <<>>
    /\ stage_result = NoStage
    /\ raised = "none"
    /\ outcome = [kind |-> "running"]
    /\ ollama_required = TRUE
    /\ integration_level = "none"
    /\ service_status = NoStatus
    /\ probes = <<>>
    /\ exit_status = None
    /\ run = 1
    /\ previous_data = NoCall
    /\ saved_reports = 0
    /\ paused = {}

\* no run in progress (the state of the orchestrator in ExecSpec)
LoopIdle ==
    /\ impl = "LoopController"
    /\ max_loops = 1
    /\ ollama_client = FALSE
    /\ pc = "idle"
    /\ current_loop = 0
    /\ loop_results = <<>>
    /\ loop_history = <<>>
    /\ loop_dir = NoDir
    /\ scopes = <<>>
    /\ csv_files = <<>>
    /\ stage_result = NoStage
    /\ raised = "none"
    /\ outcome = [kind |-> "running"]
    /\ ollama_required = TRUE
    /\ integration_level = "none"
    /\ service_status = NoStatus
    /\ probes = <<>>
    /\ exit_status = None
    /\ run = 1
    /\ previous_data = NoCall
    /\ saved_reports = 0
    /\ paused = {}

ExecIdle ==
    /\ test_cases = <<>>
    /\ executions = <<>>
    /\ last_call = [op |-> "init", id |-> UnknownId]

\* no extraction in progress
ExtractIdle ==
    /\ extraction = [has_client |-> FALSE, target |-> "reachable",
                     parser_raises |-> FALSE,
                     features |-> [kind |-> "raises", n |-> 0],
                     document |-> [kind |-> "raises", n |-> 0]]
    /\ spec_result = Null

\* no analysis in progress
AnalyzeIdle ==
    /\ analyzer_call = [test_results |-> Null, has_client |-> FALSE,
                        answer |-> [kind |-> "raises", n |-> 0]]
    /\ analyzer_result = Null

\* run_complete_loop is not being followed
StartupIdle ==
    /\ auto_start_apps = TRUE
    /\ startup_pc = "idle"
    /\ test_apps_process = "none"
    /\ waited = 0
    /\ start_up = "none"
    /\ complete_loop = "running"

Init == LoopInit /\ ExecIdle /\ ExtractIdle /\ AnalyzeIdle /\ StartupIdle

Next ==
    \/ Start
    \/ LoopHead
    \/ SpecStage
    \/ DesignStage
    \/ ExecutionStage
    \/ AnalysisStage
    \/ Report
    \/ Cancel
    \/ Restart

Spec == Init /\ [][Next]_vars

ExecInit == ExecIdle /\ LoopIdle /\ ExtractIdle /\ AnalyzeIdle /\ StartupIdle

ExecNext ==
    \/ upload_test_cases
    \/ create_execution
    \/ start_execution
    \/ complete_step
    \/ add_intervention

ExecSpec == ExecInit /\ [][ExecNext]_vars

\* one call of extract_specifications on any target, with or without a
\* client, whatever the LLM answers
ExtractInit ==
    /\ extraction \in Extractions
    /\ spec_result = Null
    /\ LoopIdle
    /\ ExecIdle
    /\ AnalyzeIdle
    /\ StartupIdle

ExtractSpecifications ==
    /\ spec_result = Null
    /\ spec_result' = extract_specifications("url", extraction)
    /\ UNCHANGED extraction
    /\ UNCHANGED <<exec_vars, loop_vars, analyze_vars, startup_vars>>

ExtractNext == ExtractSpecifications

ExtractSpec == ExtractInit /\ [][ExtractNext]_vars

\* largest number of execution results handed to one analyze_improvements
MaxAnalyzed == 2

\* the statuses an execution result can carry
ResultStatuses == {"passed", "failed", "error"}

ExecutionResult(i, status) ==
    [test_case_id |-> LoopControllerIds[i], test_name |-> LoopControllerIds[i],
     status |-> status]

\* execution artifacts handed to the analyzer: without execution_results
\* (a failed execution), or with up to MaxAnalyzed results
ExecutionArtifactSets ==
    {{[success |-> FALSE, error |-> "failed"]}}
        \cup {{[execution_results |->
                    [i \in 1..n |-> ExecutionResult(i, statuses[i])],
                total_tests |-> n] :
                  statuses \in [1..n -> ResultStatuses]} : n \in 0..MaxAnalyzed}

\* one call of analyze_improvements on any execution artifact, with or
\* without a client, whatever the LLM answers
AnalyzeInit ==
    /\ analyzer_call \in [test_results : UNION ExecutionArtifactSets,
                           has_client : BOOLEAN,
                           answer : LLMAnswers]
    /\ analyzer_result = Null
    /\ LoopIdle
    /\ ExecIdle
    /\ ExtractIdle
    /\ StartupIdle

AnalyzeImprovements ==
    /\ analyzer_result = Null
    /\ analyzer_result' = analyze_improvements(analyzer_call.test_results,
                                analyzer_call.has_client, analyzer_call.answer)
    /\ UNCHANGED analyzer_call
    /\ UNCHANGED <<exec_vars, loop_vars, extract_vars, startup_vars>>

AnalyzeNext == AnalyzeImprovements

AnalyzeSpec == AnalyzeInit /\ [][AnalyzeNext]_vars

\* ------------------------------------------------------------------------
\* run_loop_system.py : run_complete_loop and the child process that runs
\* start_apps.py
\* ------------------------------------------------------------------------
\* max_wait of _start_test_applications
max_wait == 30

\* a _cleanup that leaves the child alone
cleanup_nothing(process, exits_in_time) == process

\* IntegratedLoopSystem._cleanup: a child that still runs (poll() is None)
\* gets terminate(), and kill() when it has not exited within the timeout
\* of wait()
cleanup(process, exits_in_time) ==
    IF process = "running"
    THEN IF exits_in_time THEN "terminated" ELSE "killed"
    ELSE process

\* run_complete_loop is left with result kind: its finally clause runs
\* _cleanup
Leave(kind) ==
    /\ complete_loop' = kind
    /\ startup_pc' = "done"
    /\ \E exits_in_time \in BOOLEAN :
          test_apps_process' = cleanup(test_apps_process, exits_in_time)

StartupInit ==
    /\ auto_start_apps \in BOOLEAN
    /\ startup_pc = "prerequisites"
    /\ test_apps_process = "none"
    /\ waited = 0
    /\ start_up = "none"
    /\ complete_loop = "running"
    /\ LoopIdle
    /\ ExecIdle
    /\ ExtractIdle
    /\ AnalyzeIdle

\* _check_prerequisites: sys.exit(1) when a package is missing, the
\* exception of mkdir otherwise
CheckPrerequisites ==
    /\ startup_pc = "prerequisites"
    /\ \E packages_ok \in BOOLEAN, mkdir_ok \in BOOLEAN :
         IF ~packages_ok THEN Leave("system_exit")
         ELSE IF ~mkdir_ok THEN Leave("error")
         ELSE /\ startup_pc' = IF auto_start_apps THEN "start_apps" ELSE "main"
              /\ UNCHANGED <<test_apps_process, complete_loop>>
    /\ UNCHANGED <<auto_start_apps, waited, start_up>>
    /\ UNCHANGED <<exec_vars, loop_vars, extract_vars, analyze_vars>>

\* _start_test_applications up to the wait: the first probe, the look for
\* start_apps.py and Popen
StartTestApplications ==
    /\ startup_pc = "start_apps"
    /\ \E endpoints \in [Services -> EndpointOutcomes],
          script_exists \in BOOLEAN, popen_ok \in BOOLEAN :
         LET status == check_all_services(endpoints) IN
         IF /\ status["test_design_app"].available
            /\ status["test_execution_app"].available
         THEN /\ start_up' = "already_running"
              /\ startup_pc' = "main"
              /\ UNCHANGED test_apps_process
         ELSE IF ~script_exists
         THEN /\ start_up' = "no_script"
              /\ startup_pc' = "main"
              /\ UNCHANGED test_apps_process
         ELSE IF ~popen_ok
         THEN /\ start_up' = "popen_error"
              /\ startup_pc' = "main"
              /\ UNCHANGED test_apps_process
         ELSE /\ test_apps_process' = "running"
              /\ startup_pc' = "waiting"
              /\ UNCHANGED start_up
    /\ UNCHANGED <<auto_start_apps, waited, complete_loop>>
    /\ UNCHANGED <<exec_vars, loop_vars, extract_vars, analyze_vars>>

\* one round of the start-up wait: sleep(1) and a probe; the function
\* returns when both services answer and after max_wait rounds
WaitProbe ==
    /\ startup_pc = "waiting"
    /\ waited < max_wait
    /\ waited' = waited + 1
    /\ \E endpoints \in [Services -> EndpointOutcomes] :
         LET status == check_all_services(endpoints) IN
         IF /\ status["test_design_app"].available
            /\ status["test_execution_app"].available
         THEN /\ start_up' = "came_up"
              /\ startup_pc' = "main"
         ELSE IF waited' = max_wait
         THEN /\ start_up' = "timeout"
              /\ startup_pc' = "main"
         ELSE UNCHANGED <<start_up, startup_pc>>
    /\ UNCHANGED <<auto_start_apps, test_apps_process, complete_loop>>
    /\ UNCHANGED <<exec_vars, loop_vars, extract_vars, analyze_vars>>

\* the child exits by itself
ChildExits ==
    /\ startup_pc \in {"waiting", "main"}
    /\ test_apps_process = "running"
    /\ test_apps_process' = "exited"
    /\ UNCHANGED <<auto_start_apps, startup_pc, waited, start_up, complete_loop>>
    /\ UNCHANGED <<exec_vars, loop_vars, extract_vars, analyze_vars>>

\* _verify_system_integration, the controller, _execute_main_loop and
\* _display_final_summary: the results are returned or an exception is
\* caught
MainLoop ==
    /\ startup_pc = "main"
    /\ \E kind \in {"returned", "error"} : Leave(kind)
    /\ UNCHANGED <<auto_start_apps, waited, start_up>>
    /\ UNCHANGED <<exec_vars, loop_vars, extract_vars, analyze_vars>>

\* except KeyboardInterrupt, wherever run_complete_loop is
Interrupt ==
    /\ startup_pc \in {"prerequisites", "start_apps", "waiting", "main"}
    /\ Leave("cancelled")
    /\ UNCHANGED <<auto_start_apps, waited, start_up>>
    /\ UNCHANGED <<exec_vars, loop_vars, extract_vars, analyze_vars>>

StartupNext ==
    \/ CheckPrerequisites
    \/ StartTestApplications
    \/ WaitProbe
    \/ ChildExits
    \/ MainLoop
    \/ Interrupt

StartupSpec == StartupInit /\ [][StartupNext]_vars

\* ========================================================================
\* Properties of the orchestrator (specification Spec)
\* ========================================================================
IterationStages == {"spec", "design", "execution", "analysis"}

\* the terminal condition of the continuation policy, read off a record
RecordIsTerminal(record) ==
    /\ Len(record.improvement_analysis.failed_tests) = 0
    /\ Len(record.improvement_analysis.improvement_suggestions) <= 1

\* the loop function was entered and has been left by itself (the run was
\* not interrupted by the user and did not fail before the loop)
LoopLeft ==
    \/ pc = "report"
    \/ /\ pc = "done"
       /\ outcome.kind \notin {"cancelled", "system_exit"}
       /\ Get(outcome, "at", "") # "prerequisites"

\* C1 (as stated): the executed-iteration count of every run result is in
\* 1..N, whatever the stages return or raise.
C1_CountAtLeastOne ==
    outcome.kind = "returned" => outcome.total_loops \in 1..max_loops

\* C1 (amended): a run starts at least one and at most N iterations; the
\* executed-iteration count of a run result is in 0..N, it is the number of
\* started iterations or one less, and it is at least 1 unless the first
\* iteration raised (a run that failed before its loop or was interrupted
\* by the user left aside).
C1_IterationBounds ==
    /\ current_loop \in 0..max_loops
    /\ LoopLeft => current_loop \in 1..max_loops
    /\ outcome.kind = "returned" =>
          /\ outcome.total_loops \in 0..max_loops
          /\ outcome.total_loops \in {current_loop - 1, current_loop}
          /\ (raised = "none" \/ current_loop > 1) => outcome.total_loops >= 1

C1_Witness ==
    /\ outcome.kind = "returned"
    /\ max_loops > 1
    /\ outcome.total_loops = max_loops

\* the loop has ended: the run is past the loop, or at the while test that
\* fails
LoopEnded == pc \in {"report", "done"} \/ (pc = "while" /\ current_loop >= max_loops)

\* C2: after iteration k completes without exception the loop ends iff the
\* analysis of iteration k has zero failed tests and at most one suggestion,
\* or k = N; iteration k+1 is started otherwise, and only then; a run that
\* raises nothing executes exactly the first k at which this holds (unless
\* the user interrupts the run).
C2_ContinuationInv ==
    /\ \A k \in 1..Len(loop_results) :
          current_loop > k =>
              ~RecordIsTerminal(loop_results[k]) /\ k < max_loops
    /\ (raised = "none" /\ current_loop >= 1 /\ Len(loop_results) = current_loop
          /\ outcome.kind # "cancelled") =>
          (LoopEnded <=> (RecordIsTerminal(loop_results[current_loop])
                            \/ current_loop = max_loops))
    /\ (outcome.kind = "returned" /\ raised = "none") =>
          /\ outcome.total_loops >= 1
          /\ RecordIsTerminal(loop_results[outcome.total_loops])
                \/ outcome.total_loops = max_loops

C2_ContinuationPolicy ==
    /\ []C2_ContinuationInv
    /\ [][(pc = "while" /\ ~LoopEnded /\ outcome'.kind # "cancelled") =>
                current_loop' = current_loop + 1]_vars

C2_Witness ==
    /\ outcome.kind = "returned"
    /\ raised = "none"
    /\ max_loops > 1
    /\ outcome.total_loops = 1
    /\ RecordIsTerminal(loop_results[1])

\* C3: an exception raised inside iteration i aborts the loop: no record of
\* iteration i is appended, iteration i is not retried and no later
\* iteration of the run is started.
C3_AbortOnException ==
    [][/\ raised' # "none" =>
            /\ Len(loop_results') = current_loop' - 1
            /\ \A k \in 1..Len(loop_results') :
                   loop_results'[k].loop_number # current_loop'
       /\ (raised # "none" /\ run' = run) =>
            /\ current_loop' = current_loop
            /\ loop_results' = loop_results
            /\ scopes' = scopes
            /\ pc' \notin IterationStages]_vars

C3_Witness ==
    /\ raised = "execution"
    /\ current_loop = 2
    /\ Len(loop_results) = 1
    /\ pc = "done"

\* the number of executed iterations a final report states
ReportedLoops(report) ==
    IF "execution_summary" \in DOMAIN report
    THEN report.execution_summary.total_loops_executed
    ELSE report.total_loops_executed

\* C4: whenever an exception is raised inside an iteration, from the
\* allocation of the storage scope to the improvement analysis, the run
\* still returns a final report, which aggregates exactly the iterations
\* completed before (a failure to write the report itself left aside).
C4_ReportAfterException ==
    (raised # "none" /\ pc = "done"
        /\ Get(outcome, "at", "") # "save_final_report") =>
        /\ outcome.kind = "returned"
        /\ ReportedLoops(outcome.final_report) = current_loop - 1

\* C5: the storage scopes allocated in one run are pairwise distinct, also
\* when two iterations are allocated in the same second, and the iteration
\* in progress writes into the scope allocated last.
C5_DistinctScopes ==
    /\ \A i, j \in 1..Len(scopes) : i # j => scopes[i] # scopes[j]
    /\ \A i, j \in 1..Len(loop_results) :
          i # j => loop_results[i].loop_directory # loop_results[j].loop_directory
    /\ pc \in IterationStages => loop_dir = scopes[Len(scopes)]
    /\ \A k \in 1..Len(loop_results) : loop_results[k].loop_directory = scopes[k]

C5_Witness ==
    /\ Len(scopes) >= 2
    /\ scopes[1].timestamp = scopes[2].timestamp
    /\ Len(loop_results) >= 2

TerminalStatuses == {"passed", "failed", "error"}

\* C10: every ExecutionResult handed to the improvement analysis and
\* recorded in an iteration has status passed, failed or error.
C10_TerminalStatus ==
    /\ \A k \in 1..Len(loop_results) :
          \A i \in 1..Len(loop_results[k].test_execution.execution_results) :
              loop_results[k].test_execution.execution_results[i].status
                  \in TerminalStatuses
    /\ pc = "analysis" =>
          \A i \in 1..Len(stage_result.execution.execution_results) :
              stage_result.execution.execution_results[i].status \in TerminalStatuses

\* the test cases a design artifact carries: the "test_cases" of the local
\* generators, the "test_design_result" of the design collaborator
DesignedTestCases(design) ==
    IF "test_cases" \in DOMAIN design THEN design.test_cases
    ELSE IF "test_design_result" \in DOMAIN design
         THEN design.test_design_result.test_cases
         ELSE <<>>

\* results holds one result per test case of cases, in their order
OnePerTestCase(cases, results) ==
    /\ Len(results) = Len(cases)
    /\ \A i \in 1..Len(cases) : results[i].test_case_id = cases[i].test_case_id

\* C11: in every completed iteration there is exactly one ExecutionResult
\* per TestCase produced by the design stage of that iteration, whatever the
\* availability of the design and the execution collaborator.
C11_OneResultPerTestCase ==
    \A k \in 1..Len(loop_results) :
        OnePerTestCase(DesignedTestCases(loop_results[k].test_design),
                       loop_results[k].test_execution.execution_results)

\* both collaborators were probed unavailable in iteration k
BothUnreachable(k) ==
    /\ k \in 1..Len(probes)
    /\ probes[k].design = "unavailable"
    /\ probes[k].execution = "unavailable"

TestCaseFields == {"test_case_id", "test_name", "test_steps", "expected_results"}
ExecutionResultFields == {"test_case_id", "test_name", "status"}

NonEmptyWithFields(list, fields) ==
    /\ Len(list) >= 1
    /\ \A i \in 1..Len(list) : fields \subseteq DOMAIN list[i]

\* C12: when both collaborators are unreachable, the design artifact of the
\* iteration holds a non-empty list of test cases (each with id, name, steps
\* and expected results) and its execution artifact a non-empty list of
\* results (each with test case id, name and status), one per test case:
\* the analysis stage receives results, and so does the iteration record.
C12_FallbackNonEmpty ==
    /\ (pc = "analysis" /\ BothUnreachable(current_loop)) =>
          /\ NonEmptyWithFields(Get(stage_result.design, "test_cases", <<>>),
                                TestCaseFields)
          /\ NonEmptyWithFields(stage_result.execution.execution_results,
                                ExecutionResultFields)
          /\ stage_result.execution.total_tests >= 1
    /\ \A k \in 1..Len(loop_results) :
          BothUnreachable(k) =>
              /\ NonEmptyWithFields(Get(loop_results[k].test_design, "test_cases", <<>>),
                                    TestCaseFields)
              /\ NonEmptyWithFields(loop_results[k].test_execution.execution_results,
                                    ExecutionResultFields)
              /\ OnePerTestCase(loop_results[k].test_design.test_cases,
                                loop_results[k].test_execution.execution_results)

C12_Witness ==
    /\ Len(loop_results) = 2
    /\ BothUnreachable(1)
    /\ BothUnreachable(2)
    /\ loop_results[2].test_execution.failed_tests = 1

\* the design artifact d of iteration k of the integrated run carries the
\* flag iff the fallback generator made its test cases
FlagMeansSynthesized(k, d) ==
    LET flagged     == Get(d, "fallback_used", FALSE)
        synthesized == probes[k].design = "unavailable"
    IN  /\ flagged <=> (synthesized /\ Get(d, "test_cases", <<>>) = FallbackTestCases)
        /\ synthesized => flagged

\* C13: the design artifact of an iteration carries fallback_used = true if
\* and only if its test cases were synthesized by the local fallback
\* generator; when the design collaborator is probed unavailable the
\* artifact holds the fallback test cases and the flag.
C13_FallbackFlag ==
    impl = "IntegratedLoopSystem" =>
        /\ pc \in {"execution", "analysis"} =>
              FlagMeansSynthesized(current_loop, stage_result.design)
        /\ \A k \in 1..Len(loop_results) :
              FlagMeansSynthesized(k, loop_results[k].test_design)

\* the artifacts d and e of an iteration: a stage whose collaborator call
\* failed hands on the local fallback output
FailedCallFallsBack(d, e) ==
    /\ Get(d, "success", TRUE) = FALSE =>
          Get(d, "test_cases", <<>>) = FallbackTestCases
    /\ Get(e, "success", TRUE) = FALSE =>
          /\ Get(e, "fallback_used", FALSE)
          /\ OnePerTestCase(DesignedTestCases(d), e.execution_results)
          /\ \A i \in 1..Len(e.execution_results) :
                e.execution_results[i].status \in {"passed", "failed"}

\* C14: when a call to a collaborator fails during an iteration (also after
\* the probe reported it available), the call is not made again and the
\* output of the stage is the local fallback output: the fallback test
\* cases for the design stage, the simulated results for the execution
\* stage.
C14_FailedCallFallsBack ==
    /\ pc = "analysis" =>
          FailedCallFallsBack(stage_result.design, stage_result.execution)
    /\ \A k \in 1..Len(loop_results) :
          FailedCallFallsBack(loop_results[k].test_design,
                              loop_results[k].test_execution)

\* the execution stage of iteration k found the execution collaborator
\* available and the test-case definition file of the scope in place
ProbeAndFile(k) ==
    /\ probes[k].execution = "available"
    /\ scopes[k] \in DOMAIN csv_files

\* e comes from the execution collaborator's adapter
IsDelegatedArtifact(e) ==
    /\ "fallback_used" \notin DOMAIN e
    /\ IF e.success THEN "test_cases" \in DOMAIN e ELSE "error" \in DOMAIN e

\* e was simulated locally over the test cases of the design artifact d
IsSimulatedArtifact(d, e) ==
    /\ Get(e, "fallback_used", FALSE)
    /\ e.success
    /\ OnePerTestCase(Get(d, "test_cases", <<>>), e.execution_results)
    /\ \A i \in 1..Len(e.execution_results) :
          e.execution_results[i].status \in {"passed", "failed"}

DelegatesIffProbeAndFile(k, d, e) ==
    IF ProbeAndFile(k) THEN IsDelegatedArtifact(e) ELSE IsSimulatedArtifact(d, e)

\* C15: the execution stage delegates to the execution collaborator if and
\* only if the probe reports it available and the test-case definition file
\* of the iteration's scope exists; in every other case the results are
\* simulated locally and the execution artifact is flagged fallback_used.
C15_DelegationCondition ==
    impl = "IntegratedLoopSystem" =>
        /\ pc = "analysis" =>
              DelegatesIffProbeAndFile(current_loop, stage_result.design,
                                       stage_result.execution)
        /\ \A k \in 1..Len(loop_results) :
              DelegatesIffProbeAndFile(k, loop_results[k].test_design,
                                       loop_results[k].test_execution)

C15_Witness ==
    /\ impl = "IntegratedLoopSystem"
    /\ Len(loop_results) = 2
    /\ ProbeAndFile(1)
    /\ loop_results[1].test_execution.success
    /\ probes[2].execution = "available"
    /\ scopes[2] \notin DOMAIN csv_files
    /\ loop_results[2].test_execution.fallback_used

\* the level that goes with the reachability of the design collaborator,
\* the execution collaborator and the analysis backend
LevelOf(design, execution, analysis) ==
    IF ~analysis THEN "basic"
    ELSE IF design /\ execution THEN "full"
    ELSE "partial"

\* C16: the computed IntegrationLevel is full exactly when the design
\* collaborator, the execution collaborator and the analysis backend are all
\* reachable, basic whenever the analysis backend is unreachable, and
\* partial when the analysis backend is reachable and a collaborator is not.
C16_IntegrationLevel ==
    /\ integration_level \in {"none", "full", "partial", "basic"}
    /\ service_status # NoStatus =>
          LET design    == service_status["test_design_app"].available
              execution == service_status["test_execution_app"].available
          IN  /\ integration_level = "full" <=>
                    (design /\ execution /\ ollama_required)
              /\ ~ollama_required => integration_level = "basic"
              /\ (ollama_required /\ ~(design /\ execution)) =>
                    integration_level = "partial"
              /\ integration_level = LevelOf(design, execution, ollama_required)

C16_Witness ==
    /\ service_status # NoStatus
    /\ ~service_status["test_design_app"].available
    /\ service_status["test_execution_app"].available
    /\ ollama_required
    /\ integration_level = "partial"

\* C17: the IntegrationLevel is recomputed at the start of each iteration
\* and never carried over: the level in force during iteration k is the one
\* that goes with the availability the stages of iteration k find, also
\* when the availability has changed since the level was computed last.
C17_LevelPerIteration ==
    impl = "IntegratedLoopSystem" =>
        \A k \in 1..Len(probes) :
            /\ probes[k].design = "unavailable" => integration_level # "full"
            /\ (probes[k].design # "unprobed" /\ probes[k].execution # "unprobed") =>
                  integration_level = LevelOf(probes[k].design = "available",
                                              probes[k].execution = "available",
                                              ollama_required)

\* C18: the availability probe never raises: for every outcome of the
\* endpoint (HTTP 200, another status, connection error, timeout) it returns
\* a result with a boolean available, true only for a successful response
\* and false whenever the check errors or times out; check_all_services
\* returns an entry for both collaborators.
C18_ProbeNeverRaises ==
    /\ \A endpoint \in EndpointOutcomes :
          LET result == check_app_availability(endpoint)
          IN  /\ result.available \in BOOLEAN
              /\ result.available <=>
                    (endpoint.kind = "response" /\ endpoint.status_code = 200)
    /\ service_status # NoStatus =>
          /\ DOMAIN service_status = Services
          /\ \A s \in Services :
                /\ service_status[s].available \in BOOLEAN
                /\ service_status[s].available <=> service_status[s].status_code = 200
                /\ "error" \in DOMAIN service_status[s] =>
                      /\ ~service_status[s].available
                      /\ service_status[s].status_code = None

C18_Witness ==
    /\ service_status # NoStatus
    /\ Get(service_status["test_design_app"], "error", "") = "timeout"
    /\ ~service_status["test_design_app"].available
    /\ service_status["test_execution_app"].status_code = 500
    /\ ~service_status["test_execution_app"].available
    /\ pc = "while"

\* the design adapter's result d for the scope dir reports success only if
\* its calls succeeded, the download of the test-case file included
DesignAdapterSuccess(d, dir) ==
    ("test_design_result" \in DOMAIN d /\ d.success) =>
        (dir \in DOMAIN csv_files /\ csv_files[dir] # EmptyCsv)

\* the execution adapter's result e reports success only if no call made
\* for one of its test cases failed
ExecutionAdapterSuccess(e) ==
    ("fallback_used" \notin DOMAIN e /\ e.success) =>
        \A i \in 1..Len(e.execution_results) :
            /\ "failure_reason" \notin DOMAIN e.execution_results[i]
            /\ e.execution_results[i].status # "unknown"

\* the result r of an adapter is well-formed: success is a boolean and a
\* failure carries its reason
AdapterResultShape(r) ==
    "success" \in DOMAIN r =>
        /\ r.success \in BOOLEAN
        /\ ~r.success => "error" \in DOMAIN r

\* C19: the integration adapters never raise past their boundary: they
\* return success = false with an error reason whenever a remote call inside
\* them fails, and success = true only when every remote call succeeded.
C19_AdapterBoundary ==
    impl = "IntegratedLoopSystem" =>
        /\ pc \in {"execution", "analysis"} =>
              /\ AdapterResultShape(stage_result.design)
              /\ DesignAdapterSuccess(stage_result.design, loop_dir)
        /\ pc = "analysis" =>
              /\ AdapterResultShape(stage_result.execution)
              /\ ExecutionAdapterSuccess(stage_result.execution)
        /\ \A k \in 1..Len(loop_results) :
              /\ DesignAdapterSuccess(loop_results[k].test_design, scopes[k])
              /\ ExecutionAdapterSuccess(loop_results[k].test_execution)

\* the three outcomes of a run: success, cancelled by the user, error
RunOutcomes == {"returned", "cancelled", "error"}

\* C20: the exit status of the run is distinct for each of the outcomes
\* success, user-cancelled and error: the status a run exits with is not
\* the status of a run with another outcome.
C20_DistinctExitStatus ==
    (impl = "IntegratedLoopSystem" /\ pc = "done" /\ outcome.kind \in RunOutcomes) =>
        /\ exit_status = main(outcome)
        /\ \A other \in RunOutcomes \ {outcome.kind} :
              exit_status # main([kind |-> other])

\* C21: the final report is written exactly once per run, on every way the
\* run can end after it has started: stop by the policy, maximum reached,
\* iteration aborted by an exception, failure before the first iteration,
\* cancellation by the user.
C21_ReportOncePerRun ==
    /\ saved_reports <= 1
    /\ (pc = "done" /\ outcome.kind # "system_exit") => saved_reports = 1

\* C28: in iteration i the analyzer is given the record of iteration i-1 of
\* the same run as previous data, and no previous data in iteration 1, also
\* when the same orchestrator object performs a second run.
C28_PreviousDataOfSameRun ==
    previous_data.loop >= 1 =>
        previous_data.data =
            IF previous_data.loop = 1 THEN Null
            ELSE loop_results[previous_data.loop - 1]

\* the failure count of executed iteration k of the returned run
FailuresOf(k) ==
    Len(outcome.loop_results[k].improvement_analysis.failed_tests)

\* the run returned a final report that carries an improvement trend
HasTrend ==
    /\ outcome.kind = "returned"
    /\ "improvement_trend" \in DOMAIN outcome.final_report

\* C22: the failure-count trend of the final report has exactly one integer
\* per executed iteration, in iteration order; its k-th entry is the number
\* of failed tests of iteration k and its length is the reported total of
\* executed iterations.
C22_FailureTrend ==
    outcome.kind = "returned" =>
        /\ "improvement_trend" \in DOMAIN outcome.final_report
        /\ LET trend == outcome.final_report.improvement_trend.failure_trend
           IN  /\ Len(trend) = ReportedLoops(outcome.final_report)
               /\ Len(trend) = outcome.total_loops
               /\ \A k \in 1..Len(trend) : trend[k] = FailuresOf(k)

\* C23: improvement_detected of the final report is true iff the failure
\* count of the last executed iteration is strictly less than that of the
\* first; it is false for runs of zero or one iteration.
C23_ImprovementDetected ==
    HasTrend =>
        LET n == outcome.total_loops
        IN  /\ outcome.final_report.improvement_trend.improvement_detected
                <=> (n >= 1 /\ FailuresOf(n) < FailuresOf(1))
            /\ n <= 1 =>
                ~outcome.final_report.improvement_trend.improvement_detected

C23_Witness ==
    /\ HasTrend
    /\ outcome.total_loops = 2
    /\ FailuresOf(1) = 1
    /\ FailuresOf(2) = 0
    /\ outcome.final_report.improvement_trend.improvement_detected

\* C24: stability_achieved of the final report is true iff at least one
\* iteration was executed and the failure count of the last executed
\* iteration is zero.
C24_StabilityAchieved ==
    HasTrend =>
        LET n == outcome.total_loops
        IN  outcome.final_report.improvement_trend.stability_achieved
                <=> (n >= 1 /\ FailuresOf(n) = 0)

C24_Witness ==
    /\ HasTrend
    /\ outcome.total_loops = 2
    /\ FailuresOf(1) > 0
    /\ FailuresOf(2) = 0
    /\ outcome.final_report.improvement_trend.stability_achieved
    /\ outcome.final_report.improvement_trend.failure_trend = <<1, 0>>

\* every executed iteration ran five test cases of which exactly one
\* failed, and its analysis identified that failure
OneOfFiveFails ==
    \A k \in 1..outcome.total_loops :
        LET record == outcome.loop_results[k]
        IN  /\ Len(record.test_design.test_cases) = 5
            /\ record.test_execution.total_tests = 5
            /\ Len(SelectSeq(record.test_execution.execution_results,
                             IsFailure)) = 1
            /\ FailuresOf(k) = 1

\* C25: with five test cases of which exactly one fails identically in each
\* iteration and a maximum of three iterations, the run executes all three
\* iterations and reports the failure trend <<1, 1, 1>>, with
\* improvement_detected and stability_achieved both false.
C25_TrendOfRepeatedFailure ==
    (HasTrend /\ max_loops = 3 /\ raised = "none" /\ OneOfFiveFails) =>
        /\ outcome.total_loops = 3
        /\ outcome.final_report.total_loops_executed = 3
        /\ outcome.final_report.improvement_trend =
              [failure_trend |-> <<1, 1, 1>>,
               improvement_detected |-> FALSE,
               stability_achieved |-> FALSE]

C25_Witness ==
    /\ HasTrend
    /\ max_loops = 3
    /\ ~ollama_client
    /\ raised = "none"
    /\ OneOfFiveFails
    /\ outcome.final_report.improvement_trend.failure_trend = <<1, 1, 1>>

\* C26: specification extraction never raises past its boundary: for every
\* target, an unreachable one and any internal failure included, it returns
\* an artifact with the target URL, at least one estimated feature and a
\* document with the six fixed sections.
C26_UsableArtifact ==
    spec_result # Null =>
        /\ spec_result.target_url = "url"
        /\ Len(Get(spec_result.estimated_features, "main_features", <<>>)) >= 1
        /\ spec_result.specification_document = SixSections

\* the keys of a well-formed analysis object
AnalysisFields ==
    {"failed_tests", "evidence", "improvement_suggestions", "next_loop_plan"}

IsEmptyAnalysis(r) ==
    r.failed_tests = <<>> /\ r.improvement_suggestions = <<>>

\* the call met a failure inside the analyzer: the LLM call raised, its
\* answer was no JSON, or a suggestion could not be read
InternalFailure ==
    /\ analyzer_call.has_client
    /\ analyzer_call.answer.kind \in {"raises", "not_json", "malformed"}

\* the failure left _generate_improvements and reached the handler of
\* analyze_improvements
FailureAtBoundary ==
    analyzer_call.has_client /\ analyzer_call.answer.kind = "malformed"

\* C27 (as stated): for every execution artifact the analysis returns a
\* well-formed object, and on an internal failure, one while generating
\* suggestions included, that object is empty.
C27_EmptyOnInternalFailure ==
    analyzer_result # Null =>
        /\ AnalysisFields \subseteq DOMAIN analyzer_result
        /\ InternalFailure => IsEmptyAnalysis(analyzer_result)

\* C27 (amended): for every execution artifact the analysis returns an
\* object with failed_tests, evidence, improvement_suggestions and
\* next_loop_plan; a failure that reaches the handler of
\* analyze_improvements yields the empty object; a failure of the LLM call
\* inside the suggestion generator keeps the failed tests and yields the
\* one fallback suggestion.
C27_WellFormedAnalysis ==
    analyzer_result # Null =>
        /\ AnalysisFields \subseteq DOMAIN analyzer_result
        /\ Len(analyzer_result.failed_tests) <=
              Len(Get(analyzer_call.test_results, "execution_results", <<>>))
        /\ FailureAtBoundary => IsEmptyAnalysis(analyzer_result)
        /\ (InternalFailure /\ ~FailureAtBoundary) =>
              /\ analyzer_result.failed_tests =
                    ImprovementAnalyzer_extract_failed_tests(
                        analyzer_call.test_results)
              /\ analyzer_result.improvement_suggestions = <<Suggestion>>

C27_Witness ==
    /\ analyzer_result # Null
    /\ FailureAtBoundary
    /\ Len(Get(analyzer_call.test_results, "execution_results", <<>>)) = 2
    /\ analyzer_call.test_results.execution_results[1].status = "failed"
    /\ IsEmptyAnalysis(analyzer_result)

\* earlier is an initial part of later
IsPrefix(earlier, later) ==
    /\ Len(earlier) <= Len(later)
    /\ SubSeq(later, 1, Len(earlier)) = earlier

\* C29: the iteration history is append-only with 1-based, strictly
\* increasing iteration indices: the k-th record of the history of a run
\* has iteration index k, and appending a record never changes or removes
\* an earlier record.
C29_AppendOnlyHistory ==
    /\ [](/\ \A k \in 1..Len(loop_results) : loop_results[k].loop_number = k
          /\ outcome.kind = "returned" => outcome.loop_results = loop_results)
    /\ [][/\ run' = run => IsPrefix(loop_results, loop_results')
          /\ IsPrefix(loop_history, loop_history')
          /\ Len(loop_results') <= Len(loop_results) + 1
          /\ Len(loop_history') <= Len(loop_history) + 1]_vars

C29_Witness ==
    /\ run = 2
    /\ Len(loop_results) = 2
    /\ loop_results[2].loop_number = 2
    /\ loop_results[1].improvement_analysis # loop_results[2].improvement_analysis
    /\ Len(loop_history) > 2

\* the identifier, name, step list and expected-result list of a test case
Recovered(tc) ==
    [test_case_id |-> tc.test_case_id, test_name |-> tc.test_name,
     test_steps |-> tc.test_steps, expected_results |-> tc.expected_results]

SameTestCases(ingested, exported) ==
    /\ Len(ingested) = Len(exported)
    /\ \A i \in 1..Len(exported) : Recovered(ingested[i]) = Recovered(exported[i])

\* the design stage of the record exported its test cases to the file of
\* the iteration (by the download of the design collaborator or by the
\* fallback generator) and the execution collaborator ingested that file
ExportedAndIngested(k) ==
    LET file == CsvFileOf(scopes[k])
    IN  /\ file \notin {NoFile, EmptyCsv}
        /\ "test_cases" \in DOMAIN loop_results[k].test_execution

\* C30: a test-case set without commas and quotes that is exported to CSV,
\* by the download of the design collaborator or by the fallback generator,
\* and ingested again by the upload of the execution collaborator comes
\* back with the same identifiers, names, step lists and expected-result
\* lists.
C30_CsvRoundTrip ==
    \A k \in 1..Len(loop_results) :
        ExportedAndIngested(k) =>
            SameTestCases(loop_results[k].test_execution.test_cases,
                          DesignedTestCases(loop_results[k].test_design))

\* the execution artifacts of the run: those of the completed iterations
\* and the one of the iteration in progress
ExecutionArtifacts ==
    {loop_results[k].test_execution : k \in 1..Len(loop_results)}
        \cup (IF stage_result.execution = Null THEN {}
              ELSE {stage_result.execution})

\* C32: in every iteration the failure count that drives the continuation
\* policy and the final report (the length of failed_tests of the analysis)
\* equals the failed_tests count of the execution artifact of that
\* iteration, on the delegated path and on the fallback path.
C32_FailureCountsAgree ==
    \A k \in 1..Len(loop_results) :
        Len(loop_results[k].improvement_analysis.failed_tests)
            = loop_results[k].test_execution.failed_tests

\* the totals a final report states
ReportedTests(report) ==
    IF "execution_summary" \in DOMAIN report
    THEN report.execution_summary.total_tests_run
    ELSE report.total_tests_run

ReportedFailures(report) ==
    IF "execution_summary" \in DOMAIN report
    THEN report.execution_summary.total_failures_identified
    ELSE report.total_failures_identified

\* C33: in every final report total_failures_identified is at most
\* total_tests_run, so the success rate lies between 0 and 100, whatever
\* the iterations did (adapter failures and analyzer fallback included).
C33_FailuresWithinTests ==
    outcome.kind = "returned" =>
        LET report == outcome.final_report
        IN  /\ ReportedFailures(report) >= 0
            /\ ReportedFailures(report) <= ReportedTests(report)
            /\ "execution_summary" \in DOMAIN report =>
                  report.execution_summary.success_rate \in 0..100

C33_Witness ==
    /\ outcome.kind = "returned"
    /\ impl = "IntegratedLoopSystem"
    /\ outcome.total_loops = 2
    /\ outcome.loop_results[1].test_execution.success = FALSE
    /\ outcome.loop_results[2].improvement_analysis.failed_tests # <<>>
    /\ ReportedFailures(outcome.final_report) = ReportedTests(outcome.final_report)
    /\ outcome.final_report.execution_summary.success_rate = 0

\* C34: every execution artifact satisfies passed_tests + failed_tests =
\* total_tests and total_tests = number of execution results, on the
\* delegated path, the simulated fallback path and the adapter-failure
\* path.
C34_ArtifactCounts ==
    \A e \in ExecutionArtifacts :
        /\ e.passed_tests + e.failed_tests = e.total_tests
        /\ e.total_tests = Len(e.execution_results)

C34_Witness ==
    \E e \in ExecutionArtifacts :
        /\ "test_cases" \in DOMAIN e
        /\ e.total_tests = 2
        /\ e.execution_results[1].status = "running"
        /\ e.execution_results[2].status = "completed"
        /\ e.failed_tests = 2

\* C40: the two orchestrators apply the same continuation decision: on the
\* same per-iteration outcomes (failed tests, suggestions, exception or
\* not) and the same maximum they execute the same number of iterations and
\* sleep before exactly the same iterations.
C40_SameDecision ==
    /\ \A k \in 1..Len(loop_results) :
          LET analysis_k == loop_results[k].improvement_analysis IN
          /\ should_continue_loop(analysis_k, k, max_loops)
                <=> sleeps_before_next(analysis_k, k, max_loops)
          /\ (k + 1 \in paused) <=> should_continue_loop(analysis_k, k, max_loops)
          /\ current_loop > k => should_continue_loop(analysis_k, k, max_loops)
    /\ \A i \in paused : i - 1 \in 1..Len(loop_results)
    /\ (LoopLeft /\ raised = "none" /\ Len(loop_results) >= 1) =>
          /\ Len(loop_results) = current_loop
          /\ ~should_continue_loop(loop_results[current_loop].improvement_analysis,
                                   current_loop, max_loops)

C40_Witness ==
    /\ impl = "IntegratedLoopSystem"
    /\ pc = "report"
    /\ raised = "none"
    /\ max_loops = 2
    /\ Len(loop_results) = 2
    /\ ~RecordIsTerminal(loop_results[2])
    /\ paused = {2}

\* ========================================================================
\* Properties of run_complete_loop and its child process (specification
\* StartupSpec)
\* ========================================================================
\* C39: a child process started for the collaborator applications no
\* longer runs when run_complete_loop returns or exits, on every exit path
\* (normal completion, error, user cancellation, prerequisite failure); the
\* start-up wait makes at most max_wait probes, and leaving it, with the
\* collaborators up or not, leads to the main part of the run unless the
\* user cancels.
C39_ChildTerminated ==
    /\ [](startup_pc = "done" => test_apps_process # "running")
    /\ [](waited <= max_wait)
    /\ [][(startup_pc = "waiting" /\ startup_pc' # "waiting") =>
              \/ startup_pc' = "main" /\ complete_loop' = "running"
              \/ complete_loop' = "cancelled"]_vars

C39_Witness ==
    /\ startup_pc = "done"
    /\ start_up = "timeout"
    /\ waited = max_wait
    /\ test_apps_process = "killed"
    /\ complete_loop = "returned"

\* ========================================================================
\* Properties of the test execution application (specification ExecSpec)
\* ========================================================================
StateChangingCalls == {"start_execution", "complete_step", "add_intervention"}

\* C6: the step cursor never exceeds the declared step count, and equals it
\* whenever the status is completed.
C6_CursorBounded ==
    \A id \in DOMAIN executions :
        /\ executions[id].current_step <= Len(executions[id].test_steps)
        /\ executions[id].status = "completed" =>
              executions[id].current_step = Len(executions[id].test_steps)

\* C7: once an execution is completed (or failed), no start_execution,
\* complete_step or add_intervention call changes its status or cursor.
C7_TerminalIsFinal ==
    [][last_call'.op \in StateChangingCalls =>
        \A id \in DOMAIN executions :
            executions[id].status \in {"completed", "failed"} =>
                /\ id \in DOMAIN executions'
                /\ executions'[id].status = executions[id].status
                /\ executions'[id].current_step = executions[id].current_step]_vars

\* C8: an execution is created pending with cursor 0 and empty logs, and
\* its status only moves pending -> running (by start_execution) and
\* running -> completed (by the completion of the last declared step).
C8_Lifecycle ==
    [][/\ \A id \in DOMAIN executions' \ DOMAIN executions :
             /\ executions'[id].status = "pending"
             /\ executions'[id].current_step = 0
             /\ executions'[id].results = <<>>
             /\ executions'[id].human_interventions = <<>>
       /\ last_call'.op \in StateChangingCalls =>
            \A id \in DOMAIN executions :
                \/ executions'[id].status = executions[id].status
                \/ /\ executions[id].status = "pending"
                   /\ executions'[id].status = "running"
                   /\ last_call'.op = "start_execution"
                \/ /\ executions[id].status = "running"
                   /\ executions'[id].status = "completed"
                   /\ last_call'.op = "complete_step"
                   /\ executions'[id].current_step = Len(executions[id].test_steps)]_vars

OthersUnchanged(id) ==
    /\ DOMAIN executions' = DOMAIN executions
    /\ \A k \in DOMAIN executions \ {id} : executions'[k] = executions[k]

\* C31: each complete_step call on an existing execution appends exactly
\* one step result to the end of its result list and advances its step
\* cursor by exactly one; the intervention log and every other execution
\* stay unchanged.
C31_CompleteStepFrame ==
    [][(last_call'.op = "complete_step" /\ last_call'.id \in DOMAIN executions) =>
        LET before == executions[last_call'.id]
            after  == executions'[last_call'.id]
            n      == Len(before.results)
        IN  /\ Len(after.results) = n + 1
            /\ SubSeq(after.results, 1, n) = before.results
            /\ after.results[n + 1].status \in {"passed", "failed"}
            /\ after.current_step = before.current_step + 1
            /\ after.human_interventions = before.human_interventions
            /\ OthersUnchanged(last_call'.id)]_vars

C31_Witness ==
    /\ last_call.op = "complete_step"
    /\ last_call.id \in DOMAIN executions
    /\ Cardinality(DOMAIN executions) = 2
    /\ Len(executions[last_call.id].results) = 2
    /\ executions[last_call.id].current_step = 2
    /\ \E k \in DOMAIN executions \ {last_call.id} :
          executions[k].status = "running"

\* C35: for every test execution, in every reachable state, the number of
\* recorded step results equals the step cursor.
C35_ResultsMatchCursor ==
    \A id \in DOMAIN executions :
        Len(executions[id].results) = executions[id].current_step

\* C36: a test execution is running only while its step cursor is strictly
\* less than its declared step count; a started execution of a test case
\* with no declared step is completed, not running.
C36_RunningHasStepsLeft ==
    \A id \in DOMAIN executions :
        executions[id].status = "running" =>
            executions[id].current_step < Len(executions[id].test_steps)

\* C37: every create_execution call registers a fresh execution under an
\* identifier that is not in the registry, so it never replaces or resets
\* an existing execution, also for a second execution of the same test
\* case created within the same second.
C37_CreateIsFresh ==
    [][(last_call'.op = "create_execution"
          /\ FindTestCase(test_cases, last_call'.id[3]) # <<>>) =>
        /\ last_call'.id \notin DOMAIN executions
        /\ last_call'.id \in DOMAIN executions'
        /\ \A k \in DOMAIN executions :
              k \in DOMAIN executions' /\ executions'[k] = executions[k]]_vars

\* C38: start, complete-step and add-intervention calls addressed to an
\* identifier that is not in the registry leave every registered execution
\* unchanged and create none; a call addressed to one execution never
\* changes another, under any interleaving of the requests.
C38_Isolation ==
    [][last_call'.op \in StateChangingCalls =>
        /\ OthersUnchanged(last_call'.id)
        /\ last_call'.id \notin DOMAIN executions => executions' = executions]_vars

C38_Witness ==
    /\ last_call.op \in StateChangingCalls
    /\ last_call.id = UnknownId
    /\ Cardinality(DOMAIN executions) = 2
    /\ \E a, b \in DOMAIN executions :
          /\ executions[a].status = "running"
          /\ executions[b].status = "pending"

====
